---- MODULE Spec2Model ----
(***************************************************************************)
(* Model of document_analysis.py: the Streamlit script that loads the      *)
(* OpenAI credential, normalises an uploaded lease image and forwards it   *)
(* to the remote chat-completions endpoint.                                *)
(*                                                                         *)
(* Python values are modelled as records so that None, strings and         *)
(* objects can be compared with one another: None is [none |-> TRUE], a    *)
(* str is [str |-> "..."], a PIL image is [image |-> bytes].  Strings the   *)
(* code inspects character by character (content types, the data URI, the  *)
(* base64 text) are sequences of one-character strings.                    *)
(***************************************************************************)
EXTENDS Integers, Sequences, FiniteSets, TLC

VARIABLES pc, runs, environ, dotenv, OPENAI_API_KEY, client, input_method,
          uploaded_file, file_bytes, mime_type, preview_image, response,
          analysis_result, requests, ui, escaped

vars == <<pc, runs, environ, dotenv, OPENAI_API_KEY, client, input_method,
          uploaded_file, file_bytes, mime_type, preview_image, response,
          analysis_result, requests, ui, escaped>>

(* ---------------------------- bounds ----------------------------------- *)
MaxLen == 3
MaxRuns == 2

(* ------------------------- Python values -------------------------------- *)
None == [none |-> TRUE]

Str(s) == [str |-> s]

\* bool(v) for the values the script tests: None and "" are falsy, every
\* other str and every object (PIL image) is truthy.
Truthy(v) == v # None /\ v # Str("")

\* s.startswith(p) on character sequences
StartsWith(s, p) == Len(s) >= Len(p) /\ SubSeq(s, 1, Len(p)) = p

(* --------------------------- input domains ------------------------------ *)
SampleBytes == {0, 77, 255}

RECURSIVE SeqsUpTo(_, _)
SeqsUpTo(S, n) ==
    IF n = 0 THEN {<<>>}
    ELSE LET shorter == SeqsUpTo(S, n - 1)
         IN  shorter \cup {Append(s, x) : s \in {t \in shorter : Len(t) = n - 1}, x \in S}

ByteSeqs == SeqsUpTo(SampleBytes, MaxLen)

ImagePrefix == <<"i", "m", "a", "g", "e", "/">>
ImagePng == <<"i", "m", "a", "g", "e", "/", "p", "n", "g">>
ImageJpeg == <<"i", "m", "a", "g", "e", "/", "j", "p", "e", "g">>
TextPlain == <<"t", "e", "x", "t", "/", "p", "l", "a", "i", "n">>
UpperImagePng == <<"I", "M", "A", "G", "E", "/", "p", "n", "g">>
ImageNoSlash == <<"i", "m", "a", "g", "e">>

MimeTypes == {ImagePng, ImageJpeg, ImagePrefix, TextPlain, UpperImagePng,
              ImageNoSlash, <<>>}

\* An upload: its bytes, the declared content type, and whether PIL's
\* Image.open accepts the bytes (the outcome of the external decoder).
Uploads == [bytes : ByteSeqs, type : MimeTypes, decodable : BOOLEAN]

CameraUploads == {u \in Uploads : u.type = ImageJpeg}

KeyValues == {None, Str(""), Str("sk-test")}

Completions == {None, Str(""),
                Str("Based on this analysis, no illegal clauses were identified in the document."),
                Str("1. **Clause Identification**: ...")}

RemoteErrors == {"APITimeoutError", "AuthenticationError", "InternalServerError"}

\* What client.chat.completions.create can do: raise, or return a response
\* whose choices list is empty or holds one message.
RemoteOutcomes ==
    [kind : {"raise"}, error : RemoteErrors]
    \cup [kind : {"response"}, choices : {<<>>} \cup {<<c>> : c \in Completions}]

(* ------------------------------ texts ----------------------------------- *)
GuidanceText == "This tool currently only supports image files (JPEG, PNG). Please upload an image of your lease."
KeyErrorText == "OpenAI API key not found. Please set the 'OPENAI_API_KEY' environment variable."
AnalysisErrorPrefix == "An error occurred during analysis: "
CouldNotProcessText == "Could not process the uploaded file. Please ensure it is a valid image."
MaxTokens == 2000

Widget(kind, body) == [widget |-> kind, body |-> body]

(* ------------------------------ base64 ---------------------------------- *)
Alphabet ==
    <<"A", "B", "C", "D", "E", "F", "G", "H", "I", "J", "K", "L", "M",
      "N", "O", "P", "Q", "R", "S", "T", "U", "V", "W", "X", "Y", "Z",
      "a", "b", "c", "d", "e", "f", "g", "h", "i", "j", "k", "l", "m",
      "n", "o", "p", "q", "r", "s", "t", "u", "v", "w", "x", "y", "z",
      "0", "1", "2", "3", "4", "5", "6", "7", "8", "9", "+", "/">>

Sextet(n) == Alphabet[n + 1]

\* base64.b64encode(file_bytes).decode('utf-8'): three bytes become four
\* characters; a final group of one or two bytes is padded with "=".
b64encode_nopad(bs) ==
    LET RECURSIVE enc(_)
        enc(r) ==
            IF Len(r) < 3 THEN <<>>
            ELSE LET n == r[1] * 65536 + r[2] * 256 + r[3]
                 IN  <<Sextet(n \div 262144), Sextet((n \div 4096) % 64),
                       Sextet((n \div 64) % 64), Sextet(n % 64)>>
                     \o enc(SubSeq(r, 4, Len(r)))
    IN  enc(bs)

RECURSIVE b64encode(_)
b64encode(bs) ==
    IF Len(bs) = 0 THEN <<>>
    ELSE IF Len(bs) = 1 THEN
        <<Sextet(bs[1] \div 4), Sextet((bs[1] % 4) * 16), "=", "=">>
    ELSE IF Len(bs) = 2 THEN
        LET n == bs[1] * 256 + bs[2]
        IN  <<Sextet(n \div 1024), Sextet((n \div 16) % 64),
              Sextet((n % 16) * 4), "=">>
    ELSE
        LET n == bs[1] * 65536 + bs[2] * 256 + bs[3]
        IN  <<Sextet(n \div 262144), Sextet((n \div 4096) % 64),
              Sextet((n \div 64) % 64), Sextet(n % 64)>>
            \o b64encode(SubSeq(bs, 4, Len(bs)))

\* f"data:{mime_type};base64,{base64_image}"
DataScheme == <<"d", "a", "t", "a", ":">>
Base64Marker == <<";", "b", "a", "s", "e", "6", "4", ",">>

data_url(mt, b64) == DataScheme \o mt \o Base64Marker \o b64

(* ----------------------- analyze_lease_document ------------------------- *)
\* not mime_type.startswith("image/")
IsImageType_noSlash(mt) == StartsWith(mt, ImageNoSlash)

IsImageType(mt) == StartsWith(mt, ImagePrefix)

\* The keyword arguments of client.chat.completions.create.
create_request(fb, mt) ==
    [model |-> "gpt-5-nano", role |-> "user", text |-> "prompt",
     image_url |-> data_url(mt, b64encode(fb)), max_tokens |-> MaxTokens]

\* The try block: what it returns, the exception it raises, the requests
\* it sends.  response.choices[0] raises IndexError on an empty list.
try_block(fb, mt, outcome) ==
    IF ~IsImageType(mt)
    THEN [ret |-> Str(GuidanceText), exc |-> None, reqs |-> <<>>]
    ELSE LET reqs == <<create_request(fb, mt)>>
         IN  IF outcome.kind = "raise"
             THEN [ret |-> None, exc |-> Str(outcome.error), reqs |-> reqs]
             ELSE IF outcome.choices = <<>>
             THEN [ret |-> None, exc |-> Str("IndexError"), reqs |-> reqs]
             ELSE [ret |-> outcome.choices[1], exc |-> None, reqs |-> reqs]

\* except Exception as e: st.error(...); return None
except_handler_reraise(t) ==
    [ret |-> None, reqs |-> t.reqs, raised |-> t.exc,
     out |-> <<Widget("error", [str |-> AnalysisErrorPrefix, e |-> t.exc])>>]

except_handler_silent(t) ==
    [ret |-> None, reqs |-> t.reqs, raised |-> None, out |-> <<>>]

except_handler(t) ==
    [ret |-> None, reqs |-> t.reqs, raised |-> None,
     out |-> <<Widget("error", [str |-> AnalysisErrorPrefix, e |-> t.exc])>>]

analyze_lease_document_retry(fb, mt, outcome) ==
    LET t == try_block(fb, mt, outcome)
    IN  IF t.exc # None
        THEN LET h == except_handler(t) IN [h EXCEPT !.reqs = t.reqs \o t.reqs]
        ELSE [ret |-> t.ret, reqs |-> t.reqs, raised |-> None, out |-> <<>>]

analyze_lease_document(fb, mt, outcome) ==
    LET t == try_block(fb, mt, outcome)
    IN  IF t.exc # None
        THEN except_handler(t)
        ELSE [ret |-> t.ret, reqs |-> t.reqs, raised |-> None, out |-> <<>>]

(* ------------------------ process_uploaded_file ------------------------- *)
\* Image.open(uploaded_file) after seek(0): an image, or an exception.
image_open(uf) ==
    IF uf.decodable THEN [img |-> [image |-> uf.bytes], exc |-> None]
    ELSE [img |-> None, exc |-> Str("UnidentifiedImageError")]

process_uploaded_file_notry(uf) ==
    LET o == image_open(uf)
    IN  [file_bytes |-> uf.bytes, mime_type |-> uf.type,
         preview_image |-> o.img, raised |-> o.exc]

process_uploaded_file(uf) ==
    LET o == image_open(uf)
    IN  [file_bytes |-> uf.bytes, mime_type |-> uf.type,
         preview_image |-> IF o.exc # None THEN None ELSE o.img,
         raised |-> None]

(* --------------------------- module top level --------------------------- *)
\* load_dotenv(): a variable of the .env file is put into os.environ unless
\* os.environ already has it (override=False), whatever its value.
load_dotenv(env, file) == IF env = None THEN file ELSE env

\* not OPENAI_API_KEY
KeyMissing_isNone(key) == key = None

KeyMissing(key) == ~Truthy(key)

(* -------------------------------- main ---------------------------------- *)
\* title, two st.write calls and the disclaimer
PageHeader ==
    <<Widget("title", Str("Massachusetts Lease Agreement Analyzer")),
      Widget("write", Str("This tool helps identify potentially illegal clauses ...")),
      Widget("write", Str("Upload a clear image (JPEG/PNG) of your lease pages ...")),
      Widget("warning", Str("**Disclaimer:** ..."))>>

\* if preview_image:
PreviewGate_byType(preview, mt) == IsImageType(mt)

PreviewGate(preview, mt) == Truthy(preview)

\* if analysis_result:
ResultGate(result) == Truthy(result)

\* st.success("Analysis Complete"); st.markdown(analysis_result)
render_result(result) ==
    IF ResultGate(result)
    THEN <<Widget("success", Str("Analysis Complete")), Widget("markdown", result)>>
    ELSE <<>>

(* ------------------------------- state ---------------------------------- *)
Init ==
    /\ pc = "boot"
    /\ runs = 1
    /\ environ \in KeyValues
    /\ dotenv \in KeyValues
    /\ OPENAI_API_KEY = None
    /\ client = None
    /\ input_method = None
    /\ uploaded_file = None
    /\ file_bytes = None
    /\ mime_type = None
    /\ preview_image = None
    /\ response = None
    /\ analysis_result = None
    /\ requests = <<>>
    /\ ui = <<>>
    /\ escaped = None

\* line 11
LoadEnv ==
    /\ pc = "boot"
    /\ environ' = load_dotenv(environ, dotenv)
    /\ pc' = "loaded"
    /\ UNCHANGED <<runs, dotenv, OPENAI_API_KEY, client, input_method,
                   uploaded_file, file_bytes, mime_type, preview_image,
                   response, analysis_result, requests, ui, escaped>>

\* line 14
ReadKey ==
    /\ pc = "loaded"
    /\ OPENAI_API_KEY' = environ
    /\ pc' = "keyread"
    /\ UNCHANGED <<runs, environ, dotenv, client, input_method,
                   uploaded_file, file_bytes, mime_type, preview_image,
                   response, analysis_result, requests, ui, escaped>>

\* lines 15-17: st.error and st.stop end the script run
StopNoKey ==
    /\ pc = "keyread"
    /\ KeyMissing(OPENAI_API_KEY)
    /\ ui' = Append(ui, Widget("error", Str(KeyErrorText)))
    /\ pc' = "stopped"
    /\ UNCHANGED <<runs, environ, dotenv, OPENAI_API_KEY, client, input_method,
                   uploaded_file, file_bytes, mime_type, preview_image,
                   response, analysis_result, requests, escaped>>

\* line 20
MakeClient ==
    /\ pc = "keyread"
    /\ ~KeyMissing(OPENAI_API_KEY)
    /\ client' = [api_key |-> OPENAI_API_KEY]
    /\ pc' = "ready"
    /\ UNCHANGED <<runs, environ, dotenv, OPENAI_API_KEY, input_method,
                   uploaded_file, file_bytes, mime_type, preview_image,
                   response, analysis_result, requests, ui, escaped>>

\* lines 114-134: the page header, the radio button and the input widget,
\* whose value is None until the user has supplied a file.
RenderPage ==
    /\ pc = "ready"
    /\ \E method \in {"Upload an Image File", "Use Camera"} :
         /\ input_method' = Str(method)
         /\ uploaded_file' \in
                {None} \cup (IF method = "Upload an Image File"
                             THEN Uploads ELSE CameraUploads)
    /\ ui' = ui \o PageHeader
    /\ pc' = "page"
    /\ UNCHANGED <<runs, environ, dotenv, OPENAI_API_KEY, client,
                   file_bytes, mime_type, preview_image,
                   response, analysis_result, requests, escaped>>

\* line 136, nothing uploaded
NoFile ==
    /\ pc = "page"
    /\ uploaded_file = None
    /\ pc' = "done"
    /\ UNCHANGED <<runs, environ, dotenv, OPENAI_API_KEY, client, input_method,
                   uploaded_file, file_bytes, mime_type, preview_image,
                   response, analysis_result, requests, ui, escaped>>

\* line 137
Normalize ==
    /\ pc = "page"
    /\ uploaded_file # None
    /\ LET r == process_uploaded_file(uploaded_file)
       IN  /\ file_bytes' = r.file_bytes
           /\ mime_type' = r.mime_type
           /\ preview_image' = r.preview_image
           /\ escaped' = r.raised
           /\ pc' = IF r.raised # None THEN "crashed" ELSE "normalized"
    /\ UNCHANGED <<runs, environ, dotenv, OPENAI_API_KEY, client, input_method,
                   uploaded_file, response, analysis_result, requests, ui>>

\* lines 139-146: the preview, the remote analysis and its rendering
AnalyzeAndRender ==
    /\ pc = "normalized"
    /\ PreviewGate(preview_image, mime_type)
    /\ \E outcome \in RemoteOutcomes :
         LET r == analyze_lease_document(file_bytes, mime_type, outcome)
             shown == <<Widget("image", preview_image)>> \o r.out
         IN  /\ requests' = requests \o r.reqs
             /\ response' = IF r.reqs = <<>> THEN None ELSE outcome
             /\ escaped' = r.raised
             /\ analysis_result' = r.ret
             /\ ui' = IF r.raised # None THEN ui \o shown
                      ELSE ui \o shown \o render_result(r.ret)
             /\ pc' = IF r.raised # None THEN "crashed" ELSE "done"
    /\ UNCHANGED <<runs, environ, dotenv, OPENAI_API_KEY, client, input_method,
                   uploaded_file, file_bytes, mime_type, preview_image>>

\* lines 147-148
RejectFile ==
    /\ pc = "normalized"
    /\ ~PreviewGate(preview_image, mime_type)
    /\ ui' = Append(ui, Widget("error", Str(CouldNotProcessText)))
    /\ pc' = "done"
    /\ UNCHANGED <<runs, environ, dotenv, OPENAI_API_KEY, client, input_method,
                   uploaded_file, file_bytes, mime_type, preview_image,
                   response, analysis_result, requests, escaped>>

\* A user action makes Streamlit execute the script again from line 1; the
\* server process, and with it os.environ, stays.
Rerun ==
    /\ pc \in {"done", "stopped"}
    /\ runs < MaxRuns
    /\ runs' = runs + 1
    /\ pc' = "boot"
    /\ OPENAI_API_KEY' = None
    /\ client' = None
    /\ input_method' = None
    /\ uploaded_file' = None
    /\ file_bytes' = None
    /\ mime_type' = None
    /\ preview_image' = None
    /\ response' = None
    /\ analysis_result' = None
    /\ requests' = <<>>
    /\ ui' = <<>>
    /\ escaped' = None
    /\ UNCHANGED <<environ, dotenv>>

Next ==
    \/ LoadEnv
    \/ ReadKey
    \/ StopNoKey
    \/ MakeClient
    \/ RenderPage
    \/ NoFile
    \/ Normalize
    \/ AnalyzeAndRender
    \/ RejectFile
    \/ Rerun

Spec == Init /\ [][Next]_vars

(* ----------------- the two functions called on their own ---------------- *)
\* The module has been imported with a credential present; a caller (a test
\* harness) holds an upload of its choice and invokes one of the functions
\* on it directly.
UnitInit ==
    /\ pc = "imported"
    /\ runs = 1
    /\ environ = Str("sk-test")
    /\ dotenv = None
    /\ OPENAI_API_KEY = Str("sk-test")
    /\ client = [api_key |-> Str("sk-test")]
    /\ input_method = None
    /\ uploaded_file \in Uploads
    /\ file_bytes = None
    /\ mime_type = None
    /\ preview_image = None
    /\ response = None
    /\ analysis_result = None
    /\ requests = <<>>
    /\ ui = <<>>
    /\ escaped = None

\* lines 23-92 called with the upload's bytes and declared type
CallAnalyze ==
    /\ pc = "imported"
    /\ \E outcome \in RemoteOutcomes :
         LET r == analyze_lease_document(uploaded_file.bytes, uploaded_file.type,
                                         outcome)
         IN  /\ analysis_result' = r.ret
             /\ requests' = r.reqs
             /\ response' = IF r.reqs = <<>> THEN None ELSE outcome
             /\ ui' = r.out
             /\ escaped' = r.raised
    /\ file_bytes' = uploaded_file.bytes
    /\ mime_type' = uploaded_file.type
    /\ pc' = "analyze_returned"
    /\ UNCHANGED <<runs, environ, dotenv, OPENAI_API_KEY, client, input_method,
                   uploaded_file, preview_image>>

\* lines 94-110 called with the upload
CallProcess ==
    /\ pc = "imported"
    /\ LET r == process_uploaded_file(uploaded_file)
       IN  /\ file_bytes' = r.file_bytes
           /\ mime_type' = r.mime_type
           /\ preview_image' = r.preview_image
           /\ escaped' = r.raised
    /\ pc' = "process_returned"
    /\ UNCHANGED <<runs, environ, dotenv, OPENAI_API_KEY, client, input_method,
                   uploaded_file, response, analysis_result, requests, ui>>

UnitNext ==
    \/ CallAnalyze
    \/ CallProcess

UnitSpec == UnitInit /\ [][UnitNext]_vars

(* ------------------------- observation helpers -------------------------- *)
CountWidgets(kind) == Cardinality({i \in 1..Len(ui) : ui[i].widget = kind})

CountShown(w) == Cardinality({i \in 1..Len(ui) : ui[i] = w})

\* The analysis text on the page: the body of the markdown widget, if any.
Displayed ==
    IF \E i \in 1..Len(ui) : ui[i].widget = "markdown"
    THEN ui[CHOOSE i \in 1..Len(ui) : ui[i].widget = "markdown"].body
    ELSE None

NoResultRendered == CountWidgets("success") = 0 /\ CountWidgets("markdown") = 0

RemoteRaised == response # None /\ response.kind = "raise"

\* base64.b64decode of a character sequence: the bytes, or None where
\* Python raises binascii.Error.
IsB64Char(c) == \E i \in 1..64 : Alphabet[i] = c

CharIndex(c) == CHOOSE i \in 0..63 : Alphabet[i + 1] = c

RECURSIVE b64decode(_)
b64decode(cs) ==
    IF cs = <<>> THEN [bytes |-> <<>>]
    ELSE IF Len(cs) < 4 THEN None
    ELSE LET rest == SubSeq(cs, 5, Len(cs))
         IN  IF ~IsB64Char(cs[1]) \/ ~IsB64Char(cs[2]) THEN None
             ELSE IF cs[3] = "=" THEN
                 IF cs[4] = "=" /\ rest = <<>>
                 THEN [bytes |-> <<CharIndex(cs[1]) * 4 + CharIndex(cs[2]) \div 16>>]
                 ELSE None
             ELSE IF ~IsB64Char(cs[3]) THEN None
             ELSE IF cs[4] = "=" THEN
                 IF rest = <<>>
                 THEN LET n == CharIndex(cs[1]) * 4096 + CharIndex(cs[2]) * 64
                               + CharIndex(cs[3])
                      IN  [bytes |-> <<n \div 1024, (n \div 4) % 256>>]
                 ELSE None
             ELSE IF ~IsB64Char(cs[4]) THEN None
             ELSE LET n == CharIndex(cs[1]) * 262144 + CharIndex(cs[2]) * 4096
                           + CharIndex(cs[3]) * 64 + CharIndex(cs[4])
                      r == b64decode(rest)
                  IN  IF r = None THEN None
                      ELSE [bytes |-> <<n \div 65536, (n \div 256) % 256, n % 256>>
                                      \o r.bytes]

(* ------------------------------- claims --------------------------------- *)

\* C1: a call of analyze_lease_document whose content type does not start
\* with "image/" returns the fixed guidance string as its value, raises
\* nothing, reports no error and sends no request, whatever the bytes.
C1_NonImageGuidance ==
    (pc = "analyze_returned" /\ ~StartsWith(mime_type, ImagePrefix)) =>
        /\ analysis_result = Str(GuidanceText)
        /\ requests = <<>>
        /\ escaped = None
        /\ ui = <<>>

C1_Witness ==
    /\ pc = "analyze_returned"
    /\ mime_type = ImageNoSlash
    /\ Len(file_bytes) = 2
    /\ analysis_result = Str(GuidanceText)
    /\ requests = <<>>

\* C2: a call of analyze_lease_document whose content type starts with
\* "image/" sends exactly one request; its image_url is "data:", the
\* declared content type unmodified, ";base64," and a payload whose base64
\* decoding is exactly the bytes passed in.
C2_DataUrlRoundTrip ==
    (pc = "analyze_returned" /\ StartsWith(mime_type, ImagePrefix)) =>
        /\ Len(requests) = 1
        /\ LET url == requests[1].image_url
               head == DataScheme \o mime_type \o Base64Marker
           IN  /\ StartsWith(url, head)
               /\ b64decode(SubSeq(url, Len(head) + 1, Len(url)))
                      = [bytes |-> file_bytes]

C2_Witness ==
    /\ pc = "analyze_returned"
    /\ mime_type = ImageJpeg
    /\ file_bytes = <<255, 77>>
    /\ Len(requests) = 1
    /\ requests[1].image_url
           = DataScheme \o ImageJpeg \o Base64Marker \o <<"/", "0", "0", "=">>

\* C3: when the remote call raises, analyze_lease_document returns None and
\* no exception reaches its caller.
C3_RemoteErrorYieldsNone ==
    (pc = "analyze_returned" /\ RemoteRaised) =>
        /\ analysis_result = None
        /\ escaped = None

C3_Witness ==
    /\ pc = "analyze_returned"
    /\ RemoteRaised
    /\ response.error = "AuthenticationError"
    /\ analysis_result = None
    /\ escaped = None

\* C4: when Image.open rejects the uploaded bytes, process_uploaded_file
\* returns the original bytes, the declared content type and no preview, and
\* no exception leaves the function.
C4_DecodeFailureKeepsInput ==
    (pc = "process_returned" /\ ~uploaded_file.decodable) =>
        /\ file_bytes = uploaded_file.bytes
        /\ mime_type = uploaded_file.type
        /\ preview_image = None
        /\ escaped = None

C4_Witness ==
    /\ pc = "process_returned"
    /\ ~uploaded_file.decodable
    /\ uploaded_file.type = TextPlain
    /\ Len(uploaded_file.bytes) = 3
    /\ file_bytes = uploaded_file.bytes
    /\ preview_image = None

\* C5: a finished run for an upload declared "image/png" whose bytes fail
\* decoding has no preview, unchanged bytes, and has sent the remote request.
C5_DecodeFailureStillCallsRemote ==
    (/\ pc = "done"
     /\ uploaded_file # None
     /\ uploaded_file.type = ImagePng
     /\ ~uploaded_file.decodable) =>
        /\ preview_image = None
        /\ file_bytes = uploaded_file.bytes
        /\ Len(requests) = 1

\* C6: within one run of the script at most one remote request is sent.
C6_AtMostOneRequest == Len(requests) <= 1

C6_Witness ==
    /\ pc = "done"
    /\ RemoteRaised
    /\ Len(requests) = 1
    /\ runs = 2

\* C7: a finished run whose remote call raised has result None, exactly one
\* error message on the page, and neither the "Analysis Complete" notice nor
\* an analysis text.
C7_RemoteFailureOneError ==
    (pc = "done" /\ RemoteRaised) =>
        /\ analysis_result = None
        /\ CountWidgets("error") = 1
        /\ CountShown(Widget("error", [str |-> AnalysisErrorPrefix,
                                       e |-> Str(response.error)])) = 1
        /\ NoResultRendered

C7_Witness ==
    /\ pc = "done"
    /\ RemoteRaised
    /\ response.error = "APITimeoutError"
    /\ CountWidgets("error") = 1
    /\ analysis_result = None

\* C8: a finished run for a decoded image upload whose remote call returned
\* completion text T shows exactly T as the analysis text, for every T.
C8_DisplayedEqualsCompletion ==
    (/\ pc = "done"
     /\ preview_image # None
     /\ response # None
     /\ response.kind = "response"
     /\ response.choices # <<>>) =>
        Displayed = response.choices[1]

====
